---- MODULE Spec2Model ----
(***************************************************************************)
(* RouterOS API client (lib/client.js, class RouterOSClient): the varint   *)
(* length codec, the word framer, the sentence assembler, the reply        *)
(* decoder and the connection state machine, modelled from the source.     *)
(*                                                                         *)
(* A word is a sequence of Unicode code points, a buffer a sequence of     *)
(* bytes 0..255.  A JavaScript value that may be null is a sequence of     *)
(* length 0 (null) or 1 (the value).                                       *)
(***************************************************************************)
EXTENDS Integers, Sequences, FiniteSets, TLC

\* ------------------------------------------------------------------------
\* Bounds of the model
\* ------------------------------------------------------------------------
MaxConnects == 2        \* connect() calls in one behaviour
MaxReconnects == 3      \* connect() calls in one behaviour of SpecReconnect
MaxSends == 2           \* send() calls in one behaviour
MaxCloses == 1          \* close() calls in one behaviour
MaxCalls == 3           \* connect(), send() and close() calls together
MaxFaults == 1          \* timeouts, socket errors and unrequested closes by the peer
MaxIrregular == 1       \* data events that deliver only part of what is in flight,
                        \* plus replies the device emits before their command
MaxLenTest == 140       \* dense part of the varint test range 0..MaxLenTest
MaxWordLen == 3         \* length of the longest test word, in code points
MaxLoop == 8            \* iterations of the loop of _writeLength that are followed
MaxContLen == 6         \* longest test buffer of continuation bytes only
MaxSentences == 3       \* sentences the device emits after one command
MaxPortTest == 40       \* configured ports 1..MaxPortTest besides 8728, 8729, 65535
MaxAttrs == 2           \* words after the first in a sentence of a test reply

\* ------------------------------------------------------------------------
\* String literals of the source, as code points
\* ------------------------------------------------------------------------
W_done == <<33, 100, 111, 110, 101>>                          \* "!done"
W_re == <<33, 114, 101>>                                      \* "!re"
W_trap == <<33, 116, 114, 97, 112>>                           \* "!trap"
W_fatal == <<33, 102, 97, 116, 97, 108>>                      \* "!fatal"
P_message == <<61, 109, 101, 115, 115, 97, 103, 101, 61>>     \* "=message="
W_login == <<47, 108, 111, 103, 105, 110>>                    \* "/login"
P_name == <<61, 110, 97, 109, 101, 61>>                       \* "=name="
P_password == <<61, 112, 97, 115, 115, 119, 111, 114, 100, 61>> \* "=password="
S_unknown == <<85, 110, 107, 110, 111, 119, 110, 32, 101, 114, 114, 111, 114>> \* "Unknown error"
EqSign == 61                                                  \* "="
ReplacementChar == 65533                                      \* U+FFFD

Null == <<>>
Some(x) == <<x>>

\* ------------------------------------------------------------------------
\* 32-bit integer operators of JavaScript (|, <<) on values TLC can hold
\* ------------------------------------------------------------------------
RECURSIVE Pow2(_)
Pow2(k) == IF k = 0 THEN 1 ELSE 2 * Pow2(k - 1)

MinInt32 == (0 - Pow2(30)) - Pow2(30)

\* the low 31 bits of a 32-bit two's complement value
Low31(x) == IF x >= 0 THEN x ELSE (x + Pow2(30)) + Pow2(30)

RECURSIVE BitOrNat(_, _)
BitOrNat(a, b) ==
  IF a = 0 THEN b
  ELSE IF b = 0 THEN a
  ELSE (IF a % 2 = 1 \/ b % 2 = 1 THEN 1 ELSE 0) + 2 * BitOrNat(a \div 2, b \div 2)

\* a | b
BitOr32(a, b) ==
  IF a >= 0 /\ b >= 0 THEN BitOrNat(a, b)
  ELSE MinInt32 + BitOrNat(Low31(a), Low31(b))

\* x << shift for 0 <= x < 128: the shift count is taken modulo 32 and the
\* result is truncated to 32 bits, bit 31 being the sign
Shl32(x, shift) ==
  LET s == shift % 32
  IN IF s <= 24 THEN x * Pow2(s)
     ELSE LET low == (x % Pow2(31 - s)) * Pow2(s)
              sign == (x \div Pow2(31 - s)) % 2
          IN IF sign = 1 THEN MinInt32 + low ELSE low

\* ------------------------------------------------------------------------
\* Varint codec
\* ------------------------------------------------------------------------
\* _readLength(): [length |-> null or the number, buffer |-> this.buffer
\* after the call]
\* _readLength with "shift += 7" left out
RECURSIVE readLengthLoopNoShift(_, _, _, _)
readLengthLoopNoShift(buf, length, shift, idx) ==
  IF idx >= Len(buf) THEN [length |-> Null, buffer |-> buf]
  ELSE LET byte == buf[idx + 1]
           length2 == BitOr32(length, Shl32(byte % 128, shift))
       IN IF (byte \div 128) % 2 = 0
          THEN [length |-> Some(length2), buffer |-> SubSeq(buf, idx + 2, Len(buf))]
          ELSE readLengthLoopNoShift(buf, length2, shift, idx + 1)

RECURSIVE readLengthLoop(_, _, _, _)
readLengthLoop(buf, length, shift, idx) ==
  IF idx >= Len(buf) THEN [length |-> Null, buffer |-> buf]
  ELSE LET byte == buf[idx + 1]
           length2 == BitOr32(length, Shl32(byte % 128, shift))
       IN IF (byte \div 128) % 2 = 0
          THEN [length |-> Some(length2), buffer |-> SubSeq(buf, idx + 2, Len(buf))]
          ELSE readLengthLoop(buf, length2, shift + 7, idx + 1)

\* _readLength with the buffer sliced on the null path too
readLengthConsumes(buf) ==
  IF Len(buf) = 0 THEN [length |-> Null, buffer |-> buf]
  ELSE LET rl == readLengthLoop(buf, 0, 0, 0)
       IN IF rl.length = Null THEN [length |-> Null, buffer |-> <<>>] ELSE rl

readLength(buf) ==
  IF Len(buf) = 0 THEN [length |-> Null, buffer |-> buf]
  ELSE readLengthLoop(buf, 0, 0, 0)

\* _writeLength with "| 0x80" left out
RECURSIVE writeLengthNoContinuation(_)
writeLengthNoContinuation(length) ==
  LET byte == length % 128
      rest == length \div 128
  IN IF rest = 0 THEN <<byte>> ELSE <<byte>> \o writeLengthNoContinuation(rest)

\* _writeLength(length), for 0 <= length < 2^31 (length & 0x7f, length >> 7)
RECURSIVE writeLength(_)
writeLength(length) ==
  LET byte == length % 128
      rest == length \div 128
  IN IF rest = 0 THEN <<byte>> ELSE <<byte + 128>> \o writeLength(rest)

\* ------------------------------------------------------------------------
\* UTF-8 (Buffer.from(word, "utf8") and buffer.toString("utf8")) for code
\* points below 65536; a byte that starts no well-formed one- or two-byte
\* sequence decodes to U+FFFD (lead bytes 224..255 do not occur in the
\* streams of this model)
\* ------------------------------------------------------------------------
utf8Char(c) ==
  IF c < 128 THEN <<c>>
  ELSE IF c < 2048 THEN <<192 + (c \div 64), 128 + (c % 64)>>
  ELSE <<224 + (c \div 4096), 128 + ((c \div 64) % 64), 128 + (c % 64)>>

RECURSIVE utf8Encode(_)
utf8Encode(word) ==
  IF word = <<>> THEN <<>> ELSE utf8Char(Head(word)) \o utf8Encode(Tail(word))

RECURSIVE utf8Decode(_)
utf8Decode(bytes) ==
  IF bytes = <<>> THEN <<>>
  ELSE LET b == bytes[1] IN
    IF b < 128 THEN <<b>> \o utf8Decode(Tail(bytes))
    ELSE IF b >= 194 /\ b <= 223 /\ Len(bytes) >= 2 /\ bytes[2] >= 128 /\ bytes[2] <= 191
      THEN <<(b - 192) * 64 + (bytes[2] - 128)>> \o utf8Decode(SubSeq(bytes, 3, Len(bytes)))
    ELSE <<ReplacementChar>> \o utf8Decode(Tail(bytes))

\* _encodeWord(word)
encodeWord(word) ==
  LET wordBuf == utf8Encode(word)
      lengthBuf == writeLength(Len(wordBuf))
  IN lengthBuf \o wordBuf

RECURSIVE encodeWords(_)
encodeWords(words) ==
  IF words = <<>> THEN <<>> ELSE encodeWord(Head(words)) \o encodeWords(Tail(words))

\* the bytes _sendCommand hands to socket.write
commandBytes(words) == encodeWords(words) \o writeLength(0)

\* ------------------------------------------------------------------------
\* Reply decoder (the pure part of _processCompleteResponse)
\* ------------------------------------------------------------------------
startsWith(word, prefix) ==
  Len(word) >= Len(prefix) /\ SubSeq(word, 1, Len(prefix)) = prefix

\* word.indexOf("=", from), 0-based, -1 when absent
indexOfEq(word, from) ==
  LET hits == {i \in from..(Len(word) - 1) : word[i + 1] = EqSign}
  IN IF hits = {} THEN 0 - 1 ELSE CHOOSE i \in hits : \A j \in hits : i <= j

\* sentence.find(word => word.startsWith("=message="))
findMessage(sentence) ==
  LET hits == {i \in 1..Len(sentence) : startsWith(sentence[i], P_message)}
  IN IF hits = {} THEN Null
     ELSE Some(sentence[CHOOSE i \in hits : \A j \in hits : i <= j])

\* the first loop without its break: the last "!trap" sentence counts
trapErrorLast(sentences) ==
  LET traps == {i \in 1..Len(sentences) : sentences[i][1] = W_trap}
  IN IF traps = {} THEN Null
     ELSE LET sentence == sentences[CHOOSE i \in traps : \A j \in traps : i >= j]
              msgItem == findMessage(sentence)
          IN IF msgItem # Null
             THEN Some(SubSeq(msgItem[1], 10, Len(msgItem[1])))
             ELSE Some(S_unknown)

\* the first loop: error of the first "!trap" sentence, else null
trapError(sentences) ==
  LET traps == {i \in 1..Len(sentences) : sentences[i][1] = W_trap}
  IN IF traps = {} THEN Null
     ELSE LET sentence == sentences[CHOOSE i \in traps : \A j \in traps : i <= j]
              msgItem == findMessage(sentence)
          IN IF msgItem # Null
             THEN Some(SubSeq(msgItem[1], 10, Len(msgItem[1])))
             ELSE Some(S_unknown)

K_proto == <<95, 95, 112, 114, 111, 116, 111, 95, 95>>          \* "__proto__"

\* item[key] = value on an object literal kept as its own entries in
\* insertion order (the keys of this model are not integer-like); assigning
\* a string to __proto__ runs the setter of Object.prototype, which ignores
\* it and creates no own property
putItem(item, key, value) ==
  IF key = K_proto THEN item
  ELSE IF \E i \in 1..Len(item) : item[i].key = key
  THEN [i \in 1..Len(item) |->
          IF item[i].key = key THEN [key |-> key, value |-> value] ELSE item[i]]
  ELSE Append(item, [key |-> key, value |-> value])

RECURSIVE itemOf(_, _)
itemOf(words, item) ==
  IF words = <<>> THEN item
  ELSE LET word == Head(words)
           equalPos == indexOfEq(word, 1)
       IN IF startsWith(word, <<EqSign>>) /\ equalPos # 0 - 1
          THEN itemOf(Tail(words),
                      putItem(item, SubSeq(word, 2, equalPos),
                                    SubSeq(word, equalPos + 2, Len(word))))
          ELSE itemOf(Tail(words), item)

\* the second loop without "if (Object.keys(item).length > 0)"
RECURSIVE reDataKeepsEmpty(_)
reDataKeepsEmpty(sentences) ==
  IF sentences = <<>> THEN <<>>
  ELSE LET sentence == Head(sentences)
           item == itemOf(Tail(sentence), <<>>)
       IN IF sentence[1] = W_re
          THEN <<item>> \o reDataKeepsEmpty(Tail(sentences))
          ELSE reDataKeepsEmpty(Tail(sentences))

\* the second loop: one mapping per "!re" sentence that yields a key
RECURSIVE reData(_)
reData(sentences) ==
  IF sentences = <<>> THEN <<>>
  ELSE LET sentence == Head(sentences)
           item == itemOf(Tail(sentence), <<>>)
       IN IF sentence[1] = W_re /\ Len(item) > 0
          THEN <<item>> \o reData(Tail(sentences))
          ELSE reData(Tail(sentences))

\* the object handed to the callback, with a "!fatal" sentence taken for an
\* error
responseOfFatalIsError(sentences) ==
  [error |-> IF \E n \in 1..Len(sentences) : sentences[n][1] = W_fatal
             THEN Some(S_unknown) ELSE trapError(sentences),
   data |-> reData(sentences), raw |-> sentences]

\* the object handed to the callback
responseOf(sentences) ==
  [error |-> trapError(sentences), data |-> reData(sentences), raw |-> sentences]

\* JavaScript truthiness of response.error (null and "" are falsy)
truthy(error) == error # Null /\ error[1] # <<>>

\* ------------------------------------------------------------------------
\* State
\* ------------------------------------------------------------------------
VARIABLES
  socket,          \* this.socket: 0 (null) or the id of a socket
  connected,       \* this.connected
  buffer,          \* this.buffer
  currentRequest,  \* this.currentRequest: null or the registered callback
  sentences,       \* this.sentences
  currentSentence, \* this.currentSentence: undefined (Null) or a list of words
  sock,            \* the sockets connect() has created: lifecycle of each
  timer,           \* the connect deadline of each connect() call
  connectP,        \* the promise returned by each connect() call
  sendP,           \* the promise returned by each send() call
  closeP,          \* the promise returned by each close() call
  written,         \* per socket: the buffers accepted by socket.write, in order
  devOut,          \* per socket: the replies the device has emitted, in order
  rcvd,            \* per socket: bytes delivered so far, after each data event
  dispatched,      \* every callback invocation, in order, with its argument
  hs,              \* per connect() call: the steps of its login handshake
  emitted,         \* number of notifications raised, per event name
  errListeners,    \* number of registered "error" observers, once consulted
  crashed,         \* an exception left a socket callback uncaught
  splits,          \* data events so far that delivered part of what was in flight
  faults,          \* timeouts, socket errors and peer closes so far
  codec,           \* the codec under test: input, phase and result
  dial             \* the options of the constructor, this.port, this.tls, and
                   \* the transport and port connect() dials

vars == <<socket, connected, buffer, currentRequest, sentences, currentSentence,
          sock, timer, connectP, sendP, closeP, written, devOut, rcvd,
          dispatched, hs, emitted, errListeners, crashed, splits, faults, codec,
          dial>>

SocketIds == 1..MaxReconnects
SendIds == 1..MaxSends
CloseIds == 1..MaxCloses

\* options.username || "admin", options.password || ""
username == <<97, 100, 109, 105, 110>>
password == <<>>

NoErr == [kind |-> "none", msg |-> <<>>]
Err(kind, msg) == [kind |-> kind, msg |-> msg]

\* the whole state as one record, so that the methods are operators on it;
\* thrown marks an exception propagating out of the call just modelled
This ==
  [socket |-> socket, connected |-> connected, buffer |-> buffer,
   currentRequest |-> currentRequest, sentences |-> sentences,
   currentSentence |-> currentSentence, sock |-> sock, timer |-> timer,
   connectP |-> connectP, sendP |-> sendP, closeP |-> closeP,
   written |-> written, devOut |-> devOut, rcvd |-> rcvd,
   dispatched |-> dispatched, hs |-> hs, emitted |-> emitted,
   errListeners |-> errListeners, crashed |-> crashed, splits |-> splits,
   faults |-> faults,
   codec |-> codec, dial |-> dial, thrown |-> FALSE]

Commit(st) ==
  /\ socket' = st.socket
  /\ connected' = st.connected
  /\ buffer' = st.buffer
  /\ currentRequest' = st.currentRequest
  /\ sentences' = st.sentences
  /\ currentSentence' = st.currentSentence
  /\ sock' = st.sock
  /\ timer' = st.timer
  /\ connectP' = st.connectP
  /\ sendP' = st.sendP
  /\ closeP' = st.closeP
  /\ written' = st.written
  /\ devOut' = st.devOut
  /\ rcvd' = st.rcvd
  /\ dispatched' = st.dispatched
  /\ hs' = st.hs
  /\ emitted' = st.emitted
  /\ errListeners' = st.errListeners
  /\ crashed' = st.crashed
  /\ splits' = st.splits
  /\ faults' = st.faults
  /\ codec' = st.codec
  /\ dial' = st.dial

CodecIdle == [phase |-> "idle", n |-> 0, tail |-> <<>>, bytes |-> <<>>,
              length |-> Null, rest |-> <<>>]

DialIdle == [phase |-> "idle", options |-> [port |-> Null, tls |-> Null],
             port |-> 0, tls |-> FALSE, via |-> "none", to |-> 0]

\* the unprimed counterpart of Commit
Is(st) ==
  /\ socket = st.socket
  /\ connected = st.connected
  /\ buffer = st.buffer
  /\ currentRequest = st.currentRequest
  /\ sentences = st.sentences
  /\ currentSentence = st.currentSentence
  /\ sock = st.sock
  /\ timer = st.timer
  /\ connectP = st.connectP
  /\ sendP = st.sendP
  /\ closeP = st.closeP
  /\ written = st.written
  /\ devOut = st.devOut
  /\ rcvd = st.rcvd
  /\ dispatched = st.dispatched
  /\ hs = st.hs
  /\ emitted = st.emitted
  /\ errListeners = st.errListeners
  /\ crashed = st.crashed
  /\ splits = st.splits
  /\ faults = st.faults
  /\ codec = st.codec
  /\ dial = st.dial

\* the state after new RouterOSClient(options); errListeners is Null until
\* the first "error" event consults the observers the caller registered
NewClient ==
  [socket |-> 0,
   connected |-> FALSE,
   buffer |-> <<>>,
   currentRequest |-> Null,
   sentences |-> <<>>,
   currentSentence |-> Null,
   sock |-> [s \in SocketIds |-> [st |-> "none", ended |-> FALSE]],
   timer |-> [s \in SocketIds |-> "none"],
   connectP |-> [s \in SocketIds |-> [st |-> "none", err |-> NoErr]],
   sendP |-> [i \in SendIds |-> [st |-> "none", data |-> <<>>, err |-> NoErr,
                                 seq |-> FALSE, sock |-> 0, widx |-> 0, at |-> 0,
                                 ready |-> FALSE,
                                 words |-> <<>>]],
   closeP |-> [j \in CloseIds |-> [st |-> "none", on |-> 0]],
   written |-> [s \in SocketIds |-> <<>>],
   devOut |-> [s \in SocketIds |-> <<>>],
   rcvd |-> [s \in SocketIds |-> <<>>],
   dispatched |-> <<>>,
   hs |-> [s \in SocketIds |-> <<>>],
   emitted |-> [connected |-> 0, error |-> 0, close |-> 0],
   errListeners |-> Null,
   crashed |-> FALSE,
   splits |-> 0,
   faults |-> 0,
   codec |-> CodecIdle,
   dial |-> DialIdle,
   thrown |-> FALSE]

Init == Is(NewClient)

\* ------------------------------------------------------------------------
\* Promises: settling a settled promise has no effect
\* ------------------------------------------------------------------------
rejectConnect(st, p, err) ==
  IF st.connectP[p].st = "pending"
  THEN [st EXCEPT !.connectP[p] = [st |-> "rejected", err |-> err]]
  ELSE st

resolveConnect(st, p) ==
  IF st.connectP[p].st = "pending"
  THEN [st EXCEPT !.connectP[p] = [st |-> "resolved", err |-> NoErr],
                  !.hs[p] = Append(@, "resolve")]
  ELSE st

rejectSend(st, i, err) ==
  IF st.sendP[i].st = "pending"
  THEN [st EXCEPT !.sendP[i].st = "rejected", !.sendP[i].err = err]
  ELSE st

resolveSend(st, i, data) ==
  IF st.sendP[i].st = "pending"
  THEN [st EXCEPT !.sendP[i].st = "resolved", !.sendP[i].data = data]
  ELSE st

\* ------------------------------------------------------------------------
\* Sockets
\* ------------------------------------------------------------------------
Live(st, s) == st.sock[s].st \in {"connecting", "open"}

\* socket.destroy(): no further connect or data event, the close event follows
destroySocket(st, s) ==
  IF st.sock[s].st \in {"connecting", "open", "erroring"}
  THEN [st EXCEPT !.sock[s].st = "destroyed"]
  ELSE st

\* this.socket.write(data): a TypeError when this.socket is null; accepted on
\* a connecting or open socket; after end() the socket raises a
\* write-after-end error; a destroyed socket drops the data
socketWrite(st, data) ==
  IF st.socket = 0 THEN [st EXCEPT !.thrown = TRUE]
  ELSE LET s == st.socket IN
    IF Live(st, s) /\ ~st.sock[s].ended
      THEN [st EXCEPT !.written[s] = Append(@, data)]
    ELSE IF Live(st, s)
      THEN [st EXCEPT !.sock[s].st = "erroring"]
    ELSE st

\* _sendCommand that keeps a resolver already registered
sendCommandFirstWins(st, words, callback) ==
  socketWrite(IF st.currentRequest = Null
              THEN [st EXCEPT !.currentRequest = Some(callback)] ELSE st,
              commandBytes(words))

\* _sendCommand(words, callback)
sendCommand(st, words, callback) ==
  socketWrite([st EXCEPT !.currentRequest = Some(callback)], commandBytes(words))

Resolver(kind, id) == [kind |-> kind, id |-> id]

LoginWords1 == <<W_login>>
LoginWords2 == <<W_login, P_name \o username, P_password \o password>>

\* whether the write of the call just modelled was accepted by a socket
Wrote(before, after) ==
  before.socket # 0 /\ after.written[before.socket] # before.written[before.socket]

\* the socket and position of a command in what was written, 0 if not
\* accepted, the number of bytes the socket had delivered by then, and
\* whether that socket was open, not half-closed, and logged in
noteWrite(before, after, i) ==
  IF Wrote(before, after)
  THEN LET r == before.rcvd[before.socket]
           h == before.hs[before.socket]
       IN [after EXCEPT !.sendP[i].sock = before.socket,
                        !.sendP[i].widx = Len(after.written[before.socket]),
                        !.sendP[i].at = IF r = <<>> THEN 0 ELSE r[Len(r)],
                        !.sendP[i].ready =
                          /\ before.connected
                          /\ before.sock[before.socket] = [st |-> "open", ended |-> FALSE]
                          /\ \E n \in 1..Len(h) : h[n] = "flag"]
  ELSE after

\* ------------------------------------------------------------------------
\* Callbacks registered in this.currentRequest
\* ------------------------------------------------------------------------
Max(a, b) == IF a >= b THEN a ELSE b
Min(a, b) == IF a <= b THEN a ELSE b

\* the first callback of _login (reply to round 1): reject on a trap, else
\* send round 2; an exception of _sendCommand here leaves the data callback
loginCallback1(st, p, response) ==
  IF truthy(response.error)
  THEN rejectConnect([st EXCEPT !.hs[p] = Append(@, "trap1")], p,
                     Err("trap", response.error[1]))
  ELSE LET st1 == [st EXCEPT !.hs[p] = Append(@, "reply1")]
           st2 == sendCommand(st1, LoginWords2, Resolver("login2", p))
       IN IF st2.thrown THEN [st2 EXCEPT !.thrown = FALSE, !.crashed = TRUE]
          ELSE [st2 EXCEPT !.hs[p] = Append(@, "write2")]

\* the second callback of _login (reply to round 2)
loginCallback2(st, p, response) ==
  IF truthy(response.error)
  THEN rejectConnect([st EXCEPT !.hs[p] = Append(@, "trap2")], p,
                     Err("trap", response.error[1]))
  ELSE LET st1 == [st EXCEPT !.hs[p] = Append(@, "reply2")]
           st2 == [st1 EXCEPT !.connected = TRUE, !.hs[p] = Append(@, "flag")]
           st3 == [st2 EXCEPT !.emitted.connected = @ + 1, !.hs[p] = Append(@, "emit")]
       IN resolveConnect(st3, p)

\* the callback of send()
sendCallback(st, i, response) ==
  IF truthy(response.error)
  THEN rejectSend(st, i, Err("trap", response.error[1]))
  ELSE resolveSend(st, i, response.data)

invoke(st, callback, response) ==
  LET st1 == [st EXCEPT !.dispatched =
                Append(@, [to |-> callback, response |-> response])]
  IN IF callback.kind = "login1" THEN loginCallback1(st1, callback.id, response)
     ELSE IF callback.kind = "login2" THEN loginCallback2(st1, callback.id, response)
     ELSE sendCallback(st1, callback.id, response)

\* ------------------------------------------------------------------------
\* Sentence assembler
\* ------------------------------------------------------------------------
\* _processCompleteResponse without "this.currentRequest = null"
processCompleteResponseKeepsRequest(st) ==
  IF st.currentRequest = Null THEN st
  ELSE LET callback == st.currentRequest[1]
           response == responseOf(st.sentences)
           st1 == [st EXCEPT !.sentences = <<>>]
       IN invoke(st1, callback, response)

\* _processCompleteResponse()
processCompleteResponse(st) ==
  IF st.currentRequest = Null THEN st
  ELSE LET callback == st.currentRequest[1]
           response == responseOf(st.sentences)
           st1 == [st EXCEPT !.currentRequest = Null, !.sentences = <<>>]
       IN invoke(st1, callback, response)

\* buffer.slice(from, to) with negative indices counted from the end
sliceIndex(n, len) == IF n < 0 THEN Max(len + n, 0) ELSE Min(n, len)
slice(buf, from, to) ==
  SubSeq(buf, sliceIndex(from, Len(buf)) + 1, sliceIndex(to, Len(buf)))

\* _parseResponse(): the while loop, one iteration per unfolding
RECURSIVE parseResponse(_)
parseResponse(st) ==
  IF st.crashed \/ Len(st.buffer) = 0 THEN st
  ELSE LET rl == readLength(st.buffer)
           st1 == [st EXCEPT !.buffer = rl.buffer]
       IN IF rl.length = Null THEN st1
          ELSE IF rl.length[1] = 0
          THEN LET current == IF st1.currentSentence = Null THEN <<>>
                              ELSE st1.currentSentence[1]
                   run == IF Len(current) > 0 THEN Append(st1.sentences, current)
                          ELSE st1.sentences
                   st2 == [st1 EXCEPT !.sentences = run,
                                      !.currentSentence = Some(<<>>)]
               IN IF Len(run) > 0 /\ run[Len(run)][1] = W_done
                  THEN parseResponse(processCompleteResponse(st2))
                  ELSE parseResponse(st2)
          ELSE LET length == rl.length[1] IN
               IF Len(st1.buffer) < length THEN st1
               ELSE LET word == utf8Decode(slice(st1.buffer, 0, length))
                        current == IF st1.currentSentence = Null THEN <<>>
                                   ELSE st1.currentSentence[1]
                    IN parseResponse(
                         [st1 EXCEPT !.buffer = slice(st1.buffer, length, Len(st1.buffer)),
                                     !.currentSentence = Some(Append(current, word))])

\* _login(), called from the socket's connect handler as
\* this._login().then(resolve).catch(reject)
login(st, p) ==
  LET st1 == [st EXCEPT !.sentences = <<>>]
      st2 == sendCommand(st1, LoginWords1, Resolver("login1", p))
  IN IF st2.thrown
     THEN rejectConnect([st2 EXCEPT !.thrown = FALSE], p, Err("TypeError", <<>>))
     ELSE [st2 EXCEPT !.hs[p] = Append(@, "write1")]

\* ------------------------------------------------------------------------
\* The device and the bytes in flight
\* ------------------------------------------------------------------------
RECURSIVE replyBytes(_)
replyBytes(reply) ==
  IF reply = <<>> THEN <<>> ELSE commandBytes(Head(reply)) \o replyBytes(Tail(reply))

RECURSIVE streamBytes(_)
streamBytes(out) ==
  IF out = <<>> THEN <<>> ELSE replyBytes(Head(out).reply) \o streamBytes(Tail(out))

Delivered(st, s) == IF st.rcvd[s] = <<>> THEN 0 ELSE st.rcvd[s][Len(st.rcvd[s])]

\* the bytes the device has sent on socket s that no data event has delivered
inflight(st, s) ==
  LET all == streamBytes(st.devOut[s])
  IN SubSeq(all, Delivered(st, s) + 1, Len(all))

ReplyDone == <<<<W_done>>>>
ReplyRe == <<<<W_re, <<61, 97, 61, 98>>>>, <<W_done>>>>                  \* !re =a=b
ReplyTrap == <<<<W_trap, P_message \o <<120>>>>, <<W_done>>>>            \* !trap =message=x
Replies == {ReplyRe, ReplyTrap}

ReplyTrapBare == <<<<W_trap>>, <<W_done>>>>                              \* !trap
ReplyTrapEmpty == <<<<W_trap, P_message>>, <<W_done>>>>                  \* !trap =message=

Commands == {<<<<47, 120>>>>}                                            \* ["/x"]

\* ------------------------------------------------------------------------
\* The methods and the socket handlers, as operators on the state
\* ------------------------------------------------------------------------
\* connect(): the executor, up to the registration of the socket handlers;
\* s is the socket net.createConnection or tls.connect returns
connect(st, s) ==
  LET st1 == IF st.socket # 0
             THEN [destroySocket(st, st.socket) EXCEPT !.socket = 0]
             ELSE st
  IN [st1 EXCEPT !.timer[s] = "armed",
                 !.socket = s,
                 !.sock[s] = [st |-> "connecting", ended |-> FALSE],
                 !.connectP[s] = [st |-> "pending", err |-> NoErr]]

\* the setTimeout callback of connect() call s
onTimeout(st, s) ==
  LET st1 == IF st.socket # 0
             THEN [destroySocket(st, st.socket) EXCEPT !.socket = 0]
             ELSE st
  IN rejectConnect([st1 EXCEPT !.timer[s] = "fired"], s, Err("Timeout", <<>>))

clearTimeout(st, s) ==
  IF st.timer[s] = "armed" THEN [st EXCEPT !.timer[s] = "cleared"] ELSE st

\* socket.on("connect")
onConnect(st, s) ==
  login([clearTimeout(st, s) EXCEPT !.sock[s].st = "open"], s)

\* socket.on("data") with the first k bytes in flight as the chunk
dataHandler(st, s, k) ==
  LET chunk == SubSeq(inflight(st, s), 1, k)
      st1 == [st EXCEPT !.rcvd[s] = Append(@, Delivered(st, s) + k),
                        !.buffer = st.buffer \o chunk]
  IN parseResponse(st1)

\* socket.on("error"): emit("error", err) throws err when nobody listens
onError(st, s, listeners) ==
  LET st1 == [clearTimeout(st, s) EXCEPT !.sock[s].st = "destroyed",
                                         !.errListeners = Some(listeners)]
  IN IF listeners = 0
     THEN [st1 EXCEPT !.crashed = TRUE]
     ELSE rejectConnect([st1 EXCEPT !.emitted.error = @ + 1], s,
                        Err("SocketError", <<>>))

\* the listeners close() added to socket s, run in the order they were added
RECURSIVE closeListeners(_, _, _)
closeListeners(st, s, j) ==
  IF j > MaxCloses THEN st
  ELSE IF st.closeP[j].st = "pending" /\ st.closeP[j].on = s
    THEN closeListeners([st EXCEPT !.socket = 0, !.connected = FALSE,
                                   !.closeP[j].st = "resolved"], s, j + 1)
    ELSE closeListeners(st, s, j + 1)

\* the close handler of connect() without "this.connected = false"
onCloseKeepsConnected(st, s) ==
  closeListeners([st EXCEPT !.sock[s].st = "closed",
                            !.emitted.close = @ + 1], s, 1)

\* the close event of socket s: socket.on("close") of connect() runs first
onClose(st, s) ==
  closeListeners([st EXCEPT !.sock[s].st = "closed",
                            !.connected = FALSE,
                            !.emitted.close = @ + 1], s, 1)

Settled(p) == p.st \in {"resolved", "rejected"}

\* send without "this.sentences = []"
sendKeepsRun(st, i, words) ==
  LET st0 == [st EXCEPT !.sendP[i].st = "pending",
                        !.sendP[i].words = words,
                        !.sendP[i].seq = \A j \in SendIds : j < i => Settled(st.sendP[j])]
  IN IF ~st.connected
     THEN rejectSend(st0, i, Err("NotConnected", <<>>))
     ELSE LET st2 == sendCommand(st0, words, Resolver("send", i))
          IN IF st2.thrown
             THEN rejectSend([st2 EXCEPT !.thrown = FALSE], i, Err("TypeError", <<>>))
             ELSE noteWrite(st0, st2, i)

\* send(words), as call i
send(st, i, words) ==
  LET st0 == [st EXCEPT !.sendP[i].st = "pending",
                        !.sendP[i].words = words,
                        !.sendP[i].seq = \A j \in SendIds : j < i => Settled(st.sendP[j])]
  IN IF ~st.connected
     THEN rejectSend(st0, i, Err("NotConnected", <<>>))
     ELSE LET st1 == [st0 EXCEPT !.sentences = <<>>]
              st2 == sendCommand(st1, words, Resolver("send", i))
          IN IF st2.thrown
             THEN rejectSend([st2 EXCEPT !.thrown = FALSE], i, Err("TypeError", <<>>))
             ELSE noteWrite(st1, st2, i)

\* close(), as call j
close(st, j) ==
  IF st.socket # 0
  THEN [st EXCEPT !.sock[st.socket].ended = (@ \/ Live(st, st.socket)),
                  !.closeP[j] = [st |-> "pending", on |-> st.socket]]
  ELSE [st EXCEPT !.closeP[j] = [st |-> "resolved", on |-> 0]]

\* replies the device emitted before the command they answer was written
Early(out) == Cardinality({n \in 1..Len(out) : out[n].early})
RECURSIVE EarlyTotal(_, _)
EarlyTotal(out, ids) ==
  IF ids = {} THEN 0
  ELSE LET s == CHOOSE x \in ids : TRUE IN Early(out[s]) + EarlyTotal(out, ids \ {s})

\* the device's output on socket s extended by the replies it emits next: the
\* n-th reply on a socket answers the n-th command written to it, and a
\* reply emitted before its command was written is early
emit(st, s, replies) ==
  LET n0 == Len(st.devOut[s])
  IN [st EXCEPT !.devOut[s] = @ \o
        [n \in 1..Len(replies) |->
           [reply |-> replies[n], early |-> n0 + n > Len(st.written[s])]]]

\* ------------------------------------------------------------------------
\* Actions
\* ------------------------------------------------------------------------
FirstFree(f, ids) ==
  CHOOSE i \in ids : f[i].st = "none" /\ \A j \in ids : j < i => f[j].st # "none"
HasFree(f, ids) == \E i \in ids : f[i].st = "none"
Count(f, ids) == Cardinality({i \in ids : f[i].st # "none"})
Calls == Count(sock, SocketIds) + Count(sendP, SendIds) + Count(closeP, CloseIds)

Connect ==
  /\ ~crashed
  /\ Calls < MaxCalls
  /\ Count(sock, SocketIds) < MaxConnects
  /\ Commit(connect(This, FirstFree(sock, SocketIds)))

Send ==
  /\ ~crashed
  /\ Calls < MaxCalls
  /\ HasFree(sendP, SendIds)
  /\ \E words \in Commands : Commit(send(This, FirstFree(sendP, SendIds), words))

Close ==
  /\ ~crashed
  /\ Calls < MaxCalls
  /\ HasFree(closeP, CloseIds)
  /\ Commit(close(This, FirstFree(closeP, CloseIds)))

Timeout(s) ==
  /\ ~crashed
  /\ timer[s] = "armed"
  /\ faults < MaxFaults
  /\ Commit(onTimeout([This EXCEPT !.faults = @ + 1], s))

SockConnect(s) ==
  /\ ~crashed
  /\ sock[s].st = "connecting"
  /\ Commit(onConnect(This, s))

\* a data event of socket s: the device has emitted j further replies and the
\* first k bytes in flight arrive as one chunk; early replies and partial
\* deliveries together are limited to MaxIrregular
SockData(s) ==
  /\ ~crashed
  /\ sock[s].st = "open"
  /\ \E j \in 0..(Max(Len(written[s]) - Len(devOut[s]), 0) + MaxIrregular) :
     \E replies \in [1..j -> Replies] :
       LET st1 == emit(This, s, replies)
           n == Len(inflight(st1, s))
           early == EarlyTotal(st1.devOut, SocketIds)
       IN /\ splits + early <= MaxIrregular
          /\ \E k \in 1..n :
               IF k = n
               THEN Commit(dataHandler(st1, s, k))
               ELSE /\ splits + early < MaxIrregular
                    /\ Commit(dataHandler([st1 EXCEPT !.splits = @ + 1], s, k))

\* an error event of socket s: a failure of the transport, or the
\* write-after-end error a write has scheduled
SockError(s) ==
  /\ ~crashed
  /\ \/ sock[s].st = "erroring"
     \/ sock[s].st \in {"connecting", "open"} /\ faults < MaxFaults
  /\ \E listeners \in {0, 1} :
       /\ errListeners # Null => listeners = errListeners[1]
       /\ Commit(onError([This EXCEPT !.faults = IF sock[s].st = "erroring"
                                                 THEN @ ELSE @ + 1], s, listeners))

\* the close event of socket s: after destroy(), after an error, after the
\* peer answered end(), or when the peer closes on its own
SockClose(s) ==
  /\ ~crashed
  /\ \/ sock[s].st = "destroyed"
     \/ sock[s].st = "open" /\ sock[s].ended
     \/ sock[s].st = "open" /\ faults < MaxFaults
  /\ Commit(onClose([This EXCEPT !.faults = IF sock[s].st = "open" /\ ~sock[s].ended
                                            THEN @ + 1 ELSE @], s))

Next ==
  \/ Connect
  \/ Send
  \/ Close
  \/ \E s \in SocketIds : Timeout(s)
  \/ \E s \in SocketIds : SockConnect(s)
  \/ \E s \in SocketIds : SockData(s)
  \/ \E s \in SocketIds : SockError(s)
  \/ \E s \in SocketIds : SockClose(s)

Spec == Init /\ [][Next]_vars

\* ------------------------------------------------------------------------
\* A device that answers each command once, with any of its kinds of reply
\* ------------------------------------------------------------------------
AnswerReplies == {ReplyRe, ReplyTrap, ReplyTrapBare, ReplyTrapEmpty}

\* a data event of socket s carrying the device's whole answer to the oldest
\* command it has not answered
SockAnswer(s) ==
  /\ ~crashed
  /\ sock[s].st = "open"
  /\ Len(devOut[s]) < Len(written[s])
  /\ \E reply \in AnswerReplies :
       LET st1 == emit(This, s, <<reply>>)
       IN Commit(dataHandler(st1, s, Len(inflight(st1, s))))

NextAnswer ==
  \/ Connect
  \/ Send
  \/ Close
  \/ \E s \in SocketIds : SockConnect(s)
  \/ \E s \in SocketIds : SockAnswer(s)
  \/ \E s \in SocketIds : SockClose(s)

SpecAnswer == Init /\ [][NextAnswer]_vars

\* ------------------------------------------------------------------------
\* Repeated connect() calls: connect() is called again and again, with at
\* most one close() among the first calls; no command is sent, and the device
\* answers only what it was asked
\* ------------------------------------------------------------------------
Reconnect ==
  /\ ~crashed
  /\ Count(sock, SocketIds) < MaxReconnects
  /\ Commit(connect(This, FirstFree(sock, SocketIds)))

\* a data event of socket s with a device that answers only what it was
\* asked: it emits replies to commands written to s, and they arrive whole
SockReply(s) ==
  /\ ~crashed
  /\ sock[s].st = "open"
  /\ \E j \in 1..Max(Len(written[s]) - Len(devOut[s]), 0) :
     \E replies \in [1..j -> Replies] :
       LET st1 == emit(This, s, replies)
       IN Commit(dataHandler(st1, s, Len(inflight(st1, s))))

NextReconnect ==
  \/ Reconnect
  \/ Close
  \/ \E s \in SocketIds : SockConnect(s)
  \/ \E s \in SocketIds : SockReply(s)
  \/ \E s \in SocketIds : SockClose(s)

SpecReconnect == Init /\ [][NextReconnect]_vars

\* ------------------------------------------------------------------------
\* The varint codec on its own: encode a length, then decode it from the
\* front of a buffer that continues with other bytes
\* ------------------------------------------------------------------------
LenRange ==
  (0..MaxLenTest) \cup {16383, 16384, 2097151, 2097152, 268435455, 268435456, 2147483647}

\* what follows the encoded length in the buffer
Tails == {<<>>, <<5>>, <<200, 1>>}

InitCodec ==
  \E n \in LenRange, tail \in Tails :
    Is([NewClient EXCEPT !.codec = [phase |-> "input", n |-> n, tail |-> tail,
                                    bytes |-> <<>>, length |-> Null, rest |-> <<>>]])

NotCodec == <<socket, connected, buffer, currentRequest, sentences, currentSentence,
              sock, timer, connectP, sendP, closeP, written, devOut, rcvd,
              dispatched, hs, emitted, errListeners, crashed, splits, faults,
              dial>>

CodecEncode ==
  /\ codec.phase = "input"
  /\ codec' = [codec EXCEPT !.phase = "encoded", !.bytes = writeLength(codec.n)]
  /\ UNCHANGED NotCodec

CodecDecode ==
  /\ codec.phase = "encoded"
  /\ LET rl == readLength(codec.bytes \o codec.tail)
     IN codec' = [codec EXCEPT !.phase = "decoded", !.length = rl.length,
                               !.rest = rl.buffer]
  /\ UNCHANGED NotCodec

NextCodec == CodecEncode \/ CodecDecode

SpecCodec == InitCodec /\ [][NextCodec]_vars

\* C4: varint round-trip.  Decoding the bytes _writeLength produced for n, from
\* the front of a buffer, returns n and removes exactly those bytes: what
\* followed them is what is left of the buffer.
C4_VarintRoundTrip ==
  codec.phase = "decoded" =>
    /\ codec.length = Some(codec.n)
    /\ codec.rest = codec.tail
    /\ Len(codec.bytes \o codec.tail) - Len(codec.rest) = Len(codec.bytes)

\* a three-byte length decoded in front of further bytes
C4_Witness ==
  /\ codec.phase = "decoded"
  /\ codec.n = 16384
  /\ codec.bytes = <<128, 128, 1>>
  /\ codec.tail = <<200, 1>>
  /\ codec.length = Some(16384)

\* ------------------------------------------------------------------------
\* The assembler on its own: a Ready connection with one command pending and
\* the device's answer in flight
\* ------------------------------------------------------------------------
deliverAll(st, s) == dataHandler(st, s, Len(inflight(st, s)))

\* connect(), the connect event, and both login replies delivered whole
ReadyClient ==
  LET st1 == onConnect(connect(NewClient, 1), 1)
      st2 == deliverAll(emit(st1, 1, <<ReplyRe>>), 1)
  IN deliverAll(emit(st2, 1, <<ReplyRe>>), 1)

\* send(["/x"]) on the Ready connection, and the device's output for it
StreamStart(reply) ==
  emit(send(ReadyClient, 1, <<<<47, 120>>>>), 1, <<reply>>)

ReplyTwo ==                                   \* !re =a=b =c=é / !re =a=b=c / !done
  <<<<W_re, <<61, 97, 61, 98>>, <<61, 99, 61, 233>>>>,
    <<W_re, <<61, 97, 61, 98, 61, 99>>>>,
    <<W_done>>>>
ValidReplies == {ReplyDone, ReplyRe, ReplyTrap, ReplyTrapBare, ReplyTwo}

InitChunk == \E reply \in ValidReplies : Is(StreamStart(reply))

\* the reply in flight arrives whole, or as two chunks split at any offset
ChunkData ==
  /\ ~crashed
  /\ sock[1].st = "open"
  /\ \E k \in 1..Len(inflight(This, 1)) :
       IF k = Len(inflight(This, 1))
       THEN Commit(dataHandler(This, 1, k))
       ELSE /\ splits = 0
            /\ Commit(dataHandler([This EXCEPT !.splits = @ + 1], 1, k))

SpecChunk == InitChunk /\ [][ChunkData]_vars

\* the state after the same reply arrived in one data event
WholeDelivery == deliverAll(StreamStart(devOut[1][3].reply), 1)

\* C1: chunk-boundary independence.  Once both chunks of a valid reply have
\* arrived, what was dispatched to the pending resolver (error, data, raw)
\* and how the command settled are what one data event carrying the whole
\* reply produces.
C1_ChunkBoundaryIndependence ==
  inflight(This, 1) = <<>> =>
    /\ dispatched = WholeDelivery.dispatched
    /\ sendP = WholeDelivery.sendP

\* the chunk a step delivers on socket 1
StepChunk ==
  SubSeq(streamBytes(devOut[1]), Delivered(This, 1) + 1,
         IF rcvd'[1] = <<>> THEN 0 ELSE rcvd'[1][Len(rcvd'[1])])

\* the buffer starts with a complete length prefix announcing more body bytes
\* than follow it
BodyShort(buf) ==
  LET rl == readLength(buf)
  IN rl.length # Null /\ rl.length[1] > 0 /\ Len(rl.buffer) < rl.length[1]

\* C3: no partial state on NEED_MORE.  A data event after which the buffer
\* holds a complete length prefix but not the whole word body leaves the
\* buffer as received, the length prefix still at its front.
C3_NeedMoreKeepsBuffer ==
  [][(rcvd'[1] # rcvd[1] /\ BodyShort(buffer \o StepChunk))
       => buffer' = buffer \o StepChunk]_vars

\* ------------------------------------------------------------------------
\* One word fed to the assembler a byte at a time
\* ------------------------------------------------------------------------
WordAlphabet == {33, 61, 97, 233}                    \* "!", "=", "a", "é"
TestWords == UNION {[1..n -> WordAlphabet] : n \in 1..MaxWordLen}

\* the device has started a sentence with the word
InitBytewise == \E word \in TestWords : Is(StreamStart(<<<<word>>>>))

TheWord == devOut[1][3].reply[1][1]
\* bytes of the word's wire form that have arrived
WordBytesIn == Delivered(This, 1) - Len(replyBytes(ReplyRe)) - Len(replyBytes(ReplyRe))

\* the next byte of encodeWord(word) arrives in a data event of its own
ByteData ==
  /\ ~crashed
  /\ sock[1].st = "open"
  /\ WordBytesIn < Len(encodeWord(TheWord))
  /\ Commit(dataHandler(This, 1, 1))

SpecBytewise == InitBytewise /\ [][ByteData]_vars

\* C2: a word fed byte by byte.  After the last byte of encodeWord(w) the
\* assembler holds exactly the one word w, and at every shorter prefix it
\* holds no word.
C2_BytewiseWord ==
  IF WordBytesIn = Len(encodeWord(TheWord))
  THEN currentSentence = Some(<<TheWord>>)
  ELSE currentSentence = Some(<<>>)

\* ------------------------------------------------------------------------
\* Properties of the connection
\* ------------------------------------------------------------------------
Has(seq, x) == \E n \in 1..Len(seq) : seq[n] = x

\* C5: a reply is delivered once and in full.  No resolver is invoked twice,
\* and every invocation hands over a run of sentences that is not empty and
\* whose last sentence begins with !done.
C5_DeliveredOnceInFull ==
  \A n \in 1..Len(dispatched) :
    LET raw == dispatched[n].response.raw
    IN /\ Len(raw) > 0
       /\ raw[Len(raw)][1] = W_done
       /\ \A m \in 1..(n - 1) : dispatched[m].to # dispatched[n].to

\* both login resolvers and the resolver of a send() have been invoked, the
\* last with a reply that arrived in two chunks
C5_Witness ==
  /\ Len(dispatched) = 3
  /\ dispatched[3].to = Resolver("send", 1)
  /\ splits = 1
  /\ Len(rcvd[1]) = 4
  /\ sendP[1].st = "resolved"

\* how a command settles on a response
SettledAs(p, response) ==
  IF truthy(response.error)
  THEN p.st = "rejected" /\ p.err = Err("trap", response.error[1])
  ELSE p.st = "resolved" /\ p.data = response.data

\* offsets of the n-th reply in the device's output on socket s
ReplyStart(s, n) == Len(streamBytes(SubSeq(devOut[s], 1, n - 1)))
ReplyEnd(s, n) == Len(streamBytes(SubSeq(devOut[s], 1, n)))

\* replies n..m on socket s arrived within one data event
SameEvent(s, n, m) ==
  \E e \in 1..Len(rcvd[s]) :
    /\ (IF e = 1 THEN 0 ELSE rcvd[s][e - 1]) <= ReplyStart(s, n)
    /\ ReplyEnd(s, m) <= rcvd[s][e]

\* C6: sequential commands get their replies in order.  When the second
\* send() was issued after the first had settled, and the device's answers to
\* both arrived in one data event, each command has settled on the answer to
\* it.
C6_SequentialReplies ==
  LET s == sendP[1].sock
      n == sendP[1].widx
  IN (/\ sendP[2].st # "none" /\ sendP[2].seq
      /\ s # 0 /\ sendP[2].sock = s /\ sendP[2].widx = n + 1
      /\ Len(devOut[s]) >= n + 1
      /\ SameEvent(s, n, n + 1))
     => /\ SettledAs(sendP[1], responseOf(devOut[s][n].reply))
        /\ SettledAs(sendP[2], responseOf(devOut[s][n + 1].reply))

\* C7: an error or close event of the socket rejects the pending command.
\* A step that handles an error or close event of the socket a pending
\* send() was written to leaves that send() rejected.
C7_PendingSendRejected ==
  [][\A i \in SendIds :
       (/\ sendP[i].st = "pending" /\ sendP[i].sock # 0
        /\ sock'[sendP[i].sock] # sock[sendP[i].sock]
        /\ (emitted'.error > emitted.error \/ emitted'.close > emitted.close))
       => sendP'[i].st = "rejected"]_vars

\* the socket of the latest connect() call, 0 before the first
LastSocket == Count(sock, SocketIds)

SendStep(i) == sendP[i].st = "none" /\ sendP'[i].st # "none"
ConnectStep == \E s \in SocketIds : sock[s].st = "none" /\ sock'[s].st # "none"

\* the states other than Ready: never connected, connecting, logging in or
\* login failed, closed
NeverConnected == LastSocket = 0
Connecting == LastSocket # 0 /\ sock[LastSocket].st = "connecting"
LoggingIn ==
  LastSocket # 0 /\ sock[LastSocket].st = "open" /\ ~Has(hs[LastSocket], "flag")
ClosedLast == LastSocket # 0 /\ sock[LastSocket].st = "closed"

\* C8: send() outside Ready.  A send() issued while the connection was never
\* connected, is connecting, is logging in (or failed to), or is closed, is
\* rejected with "Not connected", writes nothing to any socket and leaves the
\* pending-resolver slot, the sentence run and the receive buffer as they
\* were.
C8_SendOutsideReady ==
  [][\A i \in SendIds :
       (SendStep(i) /\ (NeverConnected \/ Connecting \/ LoggingIn \/ ClosedLast))
       => /\ sendP'[i].st = "rejected"
          /\ sendP'[i].err = Err("NotConnected", <<>>)
          /\ written' = written
          /\ currentRequest' = currentRequest
          /\ sentences' = sentences
          /\ buffer' = buffer]_vars

\* Closed: the client has opened a socket, and the close event of every
\* socket it opened has been handled
Closed ==
  /\ LastSocket # 0
  /\ \A s \in SocketIds : sock[s].st \in {"none", "closed"}

Handshake == <<"write1", "reply1", "write2", "reply2", "flag", "emit", "resolve">>

\* C10: connect() resolves only after the two-round handshake on its socket.
\* Whenever a login has set the connected flag, its steps so far were: round
\* 1 written, its reply without trap, round 2 written, its reply without
\* trap, flag set; a resolved connect() has gone through all steps in order,
\* ending with the notification and the resolution, and both login sentences
\* were written, in that order, to the socket that connect() opened;
\* "connected" was raised once per login that got that far, and the flag is
\* only ever set by such a login.
C10_HandshakeOrder ==
  /\ \A p \in SocketIds :
       /\ Has(hs[p], "flag") =>
            Len(hs[p]) >= 5 /\ SubSeq(hs[p], 1, 5) = SubSeq(Handshake, 1, 5)
       /\ Has(hs[p], "emit") =>
            Len(hs[p]) >= 6 /\ SubSeq(hs[p], 1, 6) = SubSeq(Handshake, 1, 6)
       /\ connectP[p].st = "resolved" =>
            /\ hs[p] = Handshake
            /\ Len(written[p]) >= 2
            /\ written[p][1] = commandBytes(LoginWords1)
            /\ written[p][2] = commandBytes(LoginWords2)
       /\ Len(hs[p]) <= Len(Handshake)
  /\ emitted.connected = Cardinality({p \in SocketIds : Has(hs[p], "emit")})
  /\ connected => \E p \in SocketIds : Has(hs[p], "flag")

\* ------------------------------------------------------------------------
\* The reply decoder on its own: a Ready connection with one command pending
\* and one reply of the device, of any shape, arriving whole
\* ------------------------------------------------------------------------
AttrWords ==
  { <<61, 97, 61, 98>>,                               \* "=a=b"
    <<61, 97, 61, 98, 61, 99>>,                       \* "=a=b=c"
    <<61, 97, 61>>,                                   \* "=a="
    <<61, 99, 61, 233>>,                              \* "=c=é"
    <<61, 97, 98>>,                                   \* "=ab"
    <<97, 61, 98>>,                                   \* "a=b"
    <<EqSign>> \o K_proto \o <<EqSign, 98>> }         \* "=__proto__=b"
TrapWords ==
  { P_message \o <<120>>,                             \* "=message=x"
    P_message \o <<120, 61, 121>>,                    \* "=message=x=y"
    P_message,                                        \* "=message="
    <<61, 97, 61, 98>> }                              \* "=a=b"
WordLists(words) == UNION {[1..n -> words] : n \in 0..MaxAttrs}
ReSentences == {<<W_re>> \o ws : ws \in WordLists(AttrWords)}
TrapSentences == {<<W_trap>> \o ws : ws \in WordLists(TrapWords)}
PairSentences ==
  { <<W_re, <<61, 97, 61, 98>>>>, <<W_re, <<61, 99, 61, 233>>>>, <<W_re>>,
    <<W_trap, P_message \o <<120>>>>, <<W_trap, P_message \o <<121>>>>, <<W_trap>> }
DecodeReplies ==
  {<<s1, <<W_done>>>> : s1 \in ReSentences \cup TrapSentences}
  \cup {<<s1, s2, <<W_done>>>> : s1 \in PairSentences, s2 \in PairSentences}
  \cup {<<<<W_done>>>>, <<<<W_re, <<61, 97, 61, 98>>>>, <<W_done, <<61, 97, 61, 98>>>>>>}

InitDecode == \E reply \in DecodeReplies : Is(StreamStart(reply))

\* the reply in flight arrives in one data event
DecodeData ==
  /\ ~crashed
  /\ sock[1].st = "open"
  /\ inflight(This, 1) # <<>>
  /\ Commit(deliverAll(This, 1))

SpecDecode == InitDecode /\ [][DecodeData]_vars

\* a run of sentences that contains a !trap sentence
HasTrap(raw) == \E n \in 1..Len(raw) : raw[n][1] = W_trap

\* the reply the device gave to the command
TheReply == devOut[1][3].reply

\* an attribute word: "=", a key without "=", "=", a value
WellFormed(word) ==
  Len(word) >= 2 /\ word[1] = EqSign /\ \E i \in 2..Len(word) : word[i] = EqSign
SecondEq(word) ==
  CHOOSE i \in 2..Len(word) :
    word[i] = EqSign /\ \A j \in 2..(i - 1) : word[j] # EqSign
AttrKey(word) == SubSeq(word, 2, SecondEq(word) - 1)
AttrValue(word) == SubSeq(word, SecondEq(word) + 1, Len(word))

\* the mapping a sentence stands for, as its set of <<key, value>> pairs (of
\* two words with the same key the later one counts)
MappingOf(sentence) ==
  { <<AttrKey(sentence[i]), AttrValue(sentence[i])>> :
      i \in { i \in 2..Len(sentence) :
               /\ WellFormed(sentence[i])
               /\ \A j \in (i + 1)..Len(sentence) :
                    WellFormed(sentence[j]) => AttrKey(sentence[j]) # AttrKey(sentence[i]) } }
IsRecord(sentence) ==
  sentence[1] = W_re /\ \E i \in 2..Len(sentence) : WellFormed(sentence[i])
MappingsOf(reply) ==
  LET recs == SelectSeq(reply, IsRecord)
  IN [n \in 1..Len(recs) |-> MappingOf(recs[n])]

\* what send() resolved with, each mapping as its set of pairs
PairsOf(data) ==
  [n \in 1..Len(data) |->
     {<<data[n][k].key, data[n][k].value>> : k \in 1..Len(data[n])}]

\* C13: the data of a reply without trap.  Once such a reply has arrived,
\* send() has resolved with one mapping per !re sentence that has a
\* well-formed attribute word, in sentence order, each mapping holding for
\* every such word the key between its first two "=" and as value everything
\* after the second "=".
C13_ReplyData ==
  (inflight(This, 1) = <<>> /\ ~HasTrap(TheReply)) =>
    /\ sendP[1].st = "resolved"
    /\ PairsOf(sendP[1].data) = MappingsOf(TheReply)

\* the message of a reply's trap: the value of the =message= word of its
\* first !trap sentence, "Unknown error" when that sentence has none
TrapMessage(reply) ==
  LET n == CHOOSE n \in 1..Len(reply) :
             reply[n][1] = W_trap /\ \A m \in 1..(n - 1) : reply[m][1] # W_trap
      msgs == { i \in 2..Len(reply[n]) : startsWith(reply[n][i], P_message) }
  IN IF msgs = {} THEN S_unknown
     ELSE LET i == CHOOSE i \in msgs : \A j \in msgs : i <= j
          IN SubSeq(reply[n][i], Len(P_message) + 1, Len(reply[n][i]))

\* C14: a reply with a trap fails send().  Once a reply that contains a !trap
\* sentence has arrived, send() is rejected, and the message of the failure
\* is the trap's message.
C14_TrapFails ==
  (inflight(This, 1) = <<>> /\ HasTrap(TheReply)) =>
    /\ sendP[1].st = "rejected"
    /\ sendP[1].err = Err("trap", TrapMessage(TheReply))

\* C11: a trap in the reply to login round 2 fails connect().  Whenever the
\* resolver of round 2 was handed a reply containing a !trap, that connect()
\* is rejected with the trap's message, and its login neither set the
\* connected flag nor raised "connected".
C11_Round2Trap ==
  \A n \in 1..Len(dispatched) :
    LET d == dispatched[n]
    IN (d.to.kind = "login2" /\ HasTrap(d.response.raw)) =>
         /\ connectP[d.to.id] =
              [st |-> "rejected", err |-> Err("trap", trapError(d.response.raw)[1])]
         /\ ~Has(hs[d.to.id], "flag")
         /\ ~Has(hs[d.to.id], "emit")

\* C12: a trap in the reply to login round 1 fails connect().  Whenever the
\* resolver of round 1 was handed a reply containing a !trap, that connect()
\* is rejected with the trap's message, its login did not go on to round 2
\* (the sentence with the credentials is not among what was written to its
\* socket), and it did not set the connected flag.
C12_Round1Trap ==
  \A n \in 1..Len(dispatched) :
    LET d == dispatched[n]
    IN (d.to.kind = "login1" /\ HasTrap(d.response.raw)) =>
         /\ connectP[d.to.id] =
              [st |-> "rejected", err |-> Err("trap", trapError(d.response.raw)[1])]
         /\ ~Has(hs[d.to.id], "write2")
         /\ ~Has(written[d.to.id], commandBytes(LoginWords2))
         /\ ~Has(hs[d.to.id], "flag")

\* send() call i has failed with a trap
FailedByTrap(i) == sendP[i].st = "rejected" /\ sendP[i].err.kind = "trap"

\* Ready: the current socket is open, not half-closed, and its own login set
\* the connected flag
Ready ==
  /\ connected
  /\ socket # 0
  /\ sock[socket] = [st |-> "open", ended |-> FALSE]
  /\ Has(hs[socket], "flag")

\* C15: a send() that fails with a trap leaves the connection Ready.  The
\* step that rejects a send() with a trap changes neither the connected flag
\* nor the socket and leaves the resolver slot and the sentence run empty;
\* the next send(), issued while the connection is still Ready, is accepted
\* and written to the socket, and when it settles (both commands having gone
\* to the logged-in socket, one after the other) it settles on the device's
\* answer to it.
C15_TrapLeavesReady ==
  [][\A i \in SendIds :
       /\ (sendP[i].st = "pending" /\ FailedByTrap(i)') =>
            /\ connected' = connected
            /\ socket' = socket
            /\ sock' = sock
            /\ currentRequest' = Null
            /\ sentences' = <<>>
       /\ \A j \in SendIds :
            (FailedByTrap(i) /\ j = i + 1 /\ sendP[j].seq') =>
              /\ (SendStep(j) /\ Ready) =>
                   /\ sendP'[j].st = "pending"
                   /\ sendP'[j].sock = socket
                   /\ currentRequest' = Some(Resolver("send", j))
                   /\ Len(written'[socket]) = Len(written[socket]) + 1
              /\ (/\ sendP[j].st = "pending" /\ Settled(sendP'[j])
                  /\ sendP[i].sock # 0 /\ Has(hs[sendP[i].sock], "flag")
                  /\ sendP[j].sock = sendP[i].sock
                  /\ sendP[j].widx = sendP[i].widx + 1) =>
                   /\ Len(devOut'[sendP[j].sock]) >= sendP[j].widx
                   /\ SettledAs(sendP'[j],
                                responseOf(devOut'[sendP[j].sock][sendP[j].widx].reply))]_vars

\* a send() failed with a trap and the next one resolved with its own data
C15_Witness ==
  /\ FailedByTrap(1)
  /\ sendP[1].err = Err("trap", <<120>>)
  /\ sendP[2].st = "resolved"
  /\ sendP[2].data = reData(ReplyRe)
  /\ Ready
  /\ currentRequest = Null
  /\ sentences = <<>>

\* a step that handles a close event
CloseEvent == emitted'.close > emitted.close

DeadlineStep(s) == timer[s] = "armed" /\ timer'[s] = "fired"

\* C17: the connect deadline.  When the deadline of a connect() call
\* expires, the socket of that call, which has not had its connect event, is
\* destroyed and dropped, that connect() fails with the timeout error, and
\* no other socket is touched; the connect event of a socket cancels the
\* deadline of its connect() call for good, so an expiring deadline never
\* touches a socket that has had its connect event.
C17_ConnectDeadline ==
  [][\A s \in SocketIds :
       /\ DeadlineStep(s) =>
            /\ sock[s].st = "connecting" => sock'[s].st = "destroyed"
            /\ socket' = 0
            /\ connectP[s].st = "pending" =>
                 connectP'[s] = [st |-> "rejected", err |-> Err("Timeout", <<>>)]
            /\ \A t \in SocketIds : t # s => sock'[t] = sock[t]
       /\ (sock[s].st = "connecting" /\ sock'[s].st = "open") => timer'[s] = "cleared"
       /\ timer[s] = "cleared" => timer'[s] = "cleared"]_vars

\* a step that handles an error event of socket s: the socket is torn down,
\* and neither a connect() call nor an expiring deadline did it
ErrorStep(s) ==
  /\ sock[s].st \in {"connecting", "open", "erroring"}
  /\ sock'[s].st = "destroyed"
  /\ ~ConnectStep
  /\ \A t \in SocketIds : ~DeadlineStep(t)

\* C18: a socket error during connect().  A step that handles an error event
\* of a socket whose connect() is still pending leaves the deadline of that
\* connect() cancelled, has raised one "error" notification, and has
\* rejected that connect() with the socket's error.
C18_ErrorDuringConnect ==
  [][\A s \in SocketIds :
       (ErrorStep(s) /\ connectP[s].st = "pending") =>
         /\ timer'[s] # "armed"
         /\ emitted'.error = emitted.error + 1
         /\ connectP'[s] = [st |-> "rejected", err |-> Err("SocketError", <<>>)]]_vars

\* C19: no error is fatal to the process.  However many "error" observers
\* the caller registered, a step that handles an error event of a socket
\* lets no exception escape the socket callback, and a connect() pending on
\* that socket is rejected with the socket's error.
C19_ErrorNotFatal ==
  [][\A s \in SocketIds :
       ErrorStep(s) =>
         /\ crashed' = crashed
         /\ connectP[s].st = "pending" =>
              (connectP'[s].st = "rejected" /\ connectP'[s].err.kind = "SocketError")]_vars

\* a step that is close() call j
CloseCall(j) == closeP[j].st = "none" /\ closeP'[j].st # "none"

\* C20: close().  Called with an open socket, close() half-closes it and
\* stays pending; it resolves in the step that handles that socket's close
\* event, and then the connected flag is false, the socket reference is null
\* and the receive buffer is empty.  Called with no socket, close() resolves
\* at once and changes nothing else.
C20_CloseResolves ==
  [][\A j \in CloseIds :
       /\ (CloseCall(j) /\ socket # 0 /\ sock[socket].st = "open") =>
            /\ closeP'[j] = [st |-> "pending", on |-> socket]
            /\ sock'[socket] = [st |-> "open", ended |-> TRUE]
       /\ (CloseCall(j) /\ socket = 0) =>
            /\ closeP'[j].st = "resolved"
            /\ <<socket, connected, buffer, currentRequest, sentences,
                 currentSentence, sock, written>>' =
               <<socket, connected, buffer, currentRequest, sentences,
                 currentSentence, sock, written>>
       /\ (closeP[j].st = "pending" /\ closeP'[j].st = "resolved") =>
            /\ CloseEvent
            /\ sock'[closeP[j].on].st = "closed"
            /\ ~connected'
            /\ socket' = 0
            /\ buffer' = <<>>]_vars

\* ------------------------------------------------------------------------
\* send() on its own: a Ready connection and calls of send() with word
\* lists that cover the empty list, the empty word, a two-byte character and
\* a word whose length takes two length bytes
\* ------------------------------------------------------------------------
LongWord == [n \in 1..(MaxLenTest \div 2) |-> 233]        \* "é" repeated

SendWordSet == {<<47, 120>>, <<61, 97, 61, 233>>, <<>>, LongWord}
SendCommands == {<<>>} \cup {<<w>> : w \in SendWordSet}
                  \cup {<<w1, w2>> : w1 \in SendWordSet, w2 \in SendWordSet}

InitSend == Is(ReadyClient)

SendWords ==
  /\ HasFree(sendP, SendIds)
  /\ \E words \in SendCommands : Commit(send(This, FirstFree(sendP, SendIds), words))

SpecSend == InitSend /\ [][SendWords]_vars

\* the length prefix as the protocol states it: base-128 digits, the low
\* digit first, every digit but the last with 128 added
RECURSIVE Varint(_)
Varint(n) == IF n < 128 THEN <<n>> ELSE <<128 + (n % 128)>> \o Varint(n \div 128)

RECURSIVE WireWords(_)
WireWords(words) ==
  IF words = <<>> THEN <<>>
  ELSE Varint(Len(utf8Encode(Head(words)))) \o utf8Encode(Head(words))
         \o WireWords(Tail(words))

\* C21: what an accepted send(words) writes.  A send() on a Ready connection
\* adds exactly one write to the current socket and none to any other; its
\* bytes are, for each word in order, the varint of the word's UTF-8 byte
\* length followed by the word's UTF-8 bytes, then a single zero byte; and
\* the resolver slot then holds the resolver of this call.
C21_SendWrites ==
  [][\A i \in SendIds :
       (SendStep(i) /\ Ready) =>
         /\ written'[socket] =
              Append(written[socket], WireWords(sendP'[i].words) \o <<0>>)
         /\ \A s \in SocketIds \ {socket} : written'[s] = written[s]
         /\ currentRequest' = Some(Resolver("send", i))]_vars

C21_Witness ==
  /\ \E i \in SendIds : sendP[i].st = "pending" /\ sendP[i].words = <<LongWord, <<>>>>
  /\ written[1][Len(written[1])] =
       <<((2 * Len(LongWord)) % 128) + 128, 1>> \o utf8Encode(LongWord) \o <<0, 0>>

\* ------------------------------------------------------------------------
\* The endpoint on its own: the constructor's options, and the transport and
\* port connect() dials
\* ------------------------------------------------------------------------
DefaultPort == 8728
DefaultTlsPort == 8729

\* this.port = options.port || 8728
constructorPort(options) ==
  IF options.port # Null /\ options.port[1] # 0 THEN options.port[1] ELSE DefaultPort

\* this.tls = options.tls || false
constructorTls(options) ==
  IF options.tls # Null /\ options.tls[1] THEN TRUE ELSE FALSE

\* the transport connect() opens and the port it passes: this.port || 8729
\* to tls.connect, this.port || 8728 to net.createConnection
connectVia(thisTls) == IF thisTls THEN "tls" ELSE "net"
connectPort(thisPort, thisTls) ==
  IF thisTls
  THEN (IF thisPort # 0 THEN thisPort ELSE DefaultTlsPort)
  ELSE (IF thisPort # 0 THEN thisPort ELSE DefaultPort)

PortOptions ==
  {Null} \cup {Some(p) : p \in (1..MaxPortTest) \cup {DefaultPort, DefaultTlsPort, 65535}}
TlsOptions == {Null, Some(FALSE), Some(TRUE)}

NotDial == <<socket, connected, buffer, currentRequest, sentences, currentSentence,
             sock, timer, connectP, sendP, closeP, written, devOut, rcvd,
             dispatched, hs, emitted, errListeners, crashed, splits, faults, codec>>

\* new RouterOSClient(options)
InitDial ==
  \E port \in PortOptions, tlsOpt \in TlsOptions :
    LET options == [port |-> port, tls |-> tlsOpt]
    IN Is([NewClient EXCEPT !.dial = [phase |-> "constructed", options |-> options,
                                      port |-> constructorPort(options),
                                      tls |-> constructorTls(options),
                                      via |-> "none", to |-> 0]])

\* connect(), as far as the endpoint goes
DialConnect ==
  /\ dial.phase = "constructed"
  /\ dial' = [dial EXCEPT !.phase = "connecting",
                          !.via = connectVia(dial.tls),
                          !.to = connectPort(dial.port, dial.tls)]
  /\ UNCHANGED NotDial

SpecDial == InitDial /\ [][DialConnect]_vars

\* C22: the default port.  With no port among the options connect() dials
\* 8728 over plain TCP and 8729 over TLS; a port among the options is the
\* port connect() dials, over either transport.
C22_DefaultPort ==
  dial.phase = "connecting" =>
    /\ dial.via = (IF dial.options.tls = Some(TRUE) THEN "tls" ELSE "net")
    /\ (dial.options.port = Null /\ dial.via = "net") => dial.to = 8728
    /\ (dial.options.port = Null /\ dial.via = "tls") => dial.to = 8729
    /\ dial.options.port # Null => dial.to = dial.options.port[1]

\* ------------------------------------------------------------------------
\* _readLength on a buffer that holds continuation bytes only
\* ------------------------------------------------------------------------
ContBytes == {128, 255}
ContBuffers == UNION {[1..n -> ContBytes] : n \in 1..MaxContLen}

InitPartial ==
  \E buf \in ContBuffers :
    Is([NewClient EXCEPT !.codec = [phase |-> "buffered", n |-> 0, tail |-> <<>>,
                                    bytes |-> buf, length |-> Null, rest |-> <<>>]])

\* this._readLength() with this.buffer = codec.bytes
CodecRead ==
  /\ codec.phase = "buffered"
  /\ LET rl == readLength(codec.bytes)
     IN codec' = [codec EXCEPT !.phase = "read", !.length = rl.length,
                               !.rest = rl.buffer]
  /\ UNCHANGED NotCodec

SpecPartial == InitPartial /\ [][CodecRead]_vars

\* C23: an unfinished length.  When every byte of the receive buffer has
\* the continuation bit set, _readLength returns null (more bytes are
\* needed) and the receive buffer afterwards is the buffer it was called on.
C23_PartialLength ==
  (codec.phase = "read" /\ \A n \in 1..Len(codec.bytes) : codec.bytes[n] >= 128) =>
    /\ codec.length = Null
    /\ codec.rest = codec.bytes

\* five continuation bytes, the fifth shifted past bit 31
C23_Witness ==
  /\ codec.phase = "read"
  /\ codec.bytes = <<255, 255, 255, 255, 128>>
  /\ codec.length = Null
  /\ codec.rest = <<255, 255, 255, 255, 128>>

\* C24: a closing !done sentence empties the run.  Every closing sentence
\* whose first word is !done has the run emitted as one reply and reset, with
\* or without a pending command, so between two events the run holds no
\* sentence whose first word is !done.
C24_DoneResetsRun ==
  \A n \in 1..Len(sentences) : sentences[n][1] # W_done

\* C25: the shape of a dispatched reply.  The raw sentence list of every
\* reply handed to a resolver has no empty sentence, ends with a sentence
\* whose first word is !done, and has no earlier sentence whose first word is
\* !done.
C25_RawShape ==
  \A n \in 1..Len(dispatched) :
    LET raw == dispatched[n].response.raw
    IN /\ Len(raw) > 0
       /\ \A m \in 1..Len(raw) : raw[m] # <<>>
       /\ raw[Len(raw)][1] = W_done
       /\ \A m \in 1..(Len(raw) - 1) : raw[m][1] # W_done

\* a send() was handed a reply of two sentences on a socket where the
\* device emitted more replies than that
C25_Witness ==
  \E n \in 1..Len(dispatched) :
    /\ dispatched[n].to.kind = "send"
    /\ Len(dispatched[n].response.raw) = 2
    /\ \E s \in SocketIds : Len(devOut[s]) > n

\* the !trap sentences of a reply
TrapsOf(reply) == {n \in 1..Len(reply) : reply[n][1] = W_trap}

\* C26: the first trap counts.  The error of a dispatched reply that holds
\* more than one !trap sentence is the value of the =message= word of the
\* first of them, "Unknown error" when the first has none, whatever the
\* later !trap sentences say.
C26_FirstTrapOnly ==
  \A n \in 1..Len(dispatched) :
    (dispatched[n].to = Resolver("send", 1) /\ Cardinality(TrapsOf(TheReply)) > 1) =>
      /\ dispatched[n].response.raw = TheReply
      /\ dispatched[n].response.error = Some(TrapMessage(TheReply))

\* !trap =message=y, !trap =message=x, !done was dispatched with error "y"
C26_Witness ==
  /\ TheReply = <<<<W_trap, P_message \o <<121>>>>, <<W_trap, P_message \o <<120>>>>,
                  <<W_done>>>>
  /\ Len(dispatched) = 3
  /\ dispatched[3].to = Resolver("send", 1)
  /\ dispatched[3].response.error = Some(<<121>>)

\* a reply without its malformed attribute words and without the !re
\* sentences that are left with no word
SkipMalformed(sentence) ==
  IF sentence[1] = W_re THEN <<W_re>> \o SelectSeq(Tail(sentence), WellFormed)
  ELSE sentence
HasWords(sentence) == sentence[1] # W_re \/ Len(sentence) > 1
Cleaned(reply) == SelectSeq([n \in 1..Len(reply) |-> SkipMalformed(reply[n])], HasWords)

\* C27: malformed input does not fail a reply.  Once a reply has arrived it
\* has been dispatched; its data holds no empty mapping and is the data of
\* the same reply with the malformed words and the attribute-less !re
\* sentences taken out, in the same order; its error is the error of that
\* reply; and without a trap send() has resolved with that data.
C27_MalformedSkipped ==
  inflight(This, 1) = <<>> =>
    /\ \E n \in 1..Len(dispatched) : dispatched[n].to = Resolver("send", 1)
    /\ \A n \in 1..Len(dispatched) :
         dispatched[n].to = Resolver("send", 1) =>
           LET response == dispatched[n].response
           IN /\ response.raw = TheReply
              /\ \A k \in 1..Len(response.data) : response.data[k] # <<>>
              /\ Len(response.data) <=
                   Cardinality({m \in 1..Len(TheReply) : IsRecord(TheReply[m])})
              /\ response.data = reData(Cleaned(TheReply))
              /\ response.error = trapError(Cleaned(TheReply))
              /\ ~HasTrap(TheReply) =>
                   (sendP[1].st = "resolved" /\ sendP[1].data = response.data)

\* !re, !re =a=b, !done resolved with the one mapping {a: b}
C27_Witness ==
  /\ TheReply = <<<<W_re>>, <<W_re, <<61, 97, 61, 98>>>>, <<W_done>>>>
  /\ sendP[1].st = "resolved"
  /\ sendP[1].data = <<<<[key |-> <<97>>, value |-> <<98>>]>>>>

\* ------------------------------------------------------------------------
\* A device that answers one command sentence by sentence, with sentences
\* of every tag and of none
\* ------------------------------------------------------------------------
StreamSentences ==
  { <<W_fatal>>,
    <<W_fatal, P_message \o <<120>>>>,               \* !fatal =message=x
    <<W_fatal, <<61, 97, 61, 98>>>>,                 \* !fatal =a=b
    <<<<33, 101, 109, 112, 116, 121>>>>,             \* !empty
    <<<<61, 97, 61, 98>>>>,                          \* =a=b, untagged
    <<W_re, <<61, 99, 61, 233>>>>,                   \* !re =c=é
    <<W_trap, P_message \o <<121>>>>,                \* !trap =message=y
    <<W_done>> }

\* send(["/x"]) on the Ready connection, nothing in flight
InitStream == Is(send(ReadyClient, 1, <<<<47, 120>>>>))

\* the sentences the device has sent after the command
Streamed == [n \in 1..(Len(devOut[1]) - 2) |-> devOut[1][n + 2].reply[1]]

\* a data event that carries the next sentence of the device, whole
SockSentence ==
  /\ ~crashed
  /\ sock[1].st = "open"
  /\ Len(Streamed) < MaxSentences
  /\ \E sentence \in StreamSentences :
       Commit(deliverAll(emit(This, 1, <<<<sentence>>>>), 1))

SpecStream == InitStream /\ [][SockSentence]_vars

Tagged(sentence) == sentence[1] \in {W_re, W_trap, W_done}
Dones(run) == {n \in 1..Len(run) : run[n][1] = W_done}
FirstDone(run) == CHOOSE d \in Dones(run) : \A e \in Dones(run) : d <= e
ToSend1 == {n \in 1..Len(dispatched) : dispatched[n].to = Resolver("send", 1)}

\* C28: a sentence with another tag than !re, !trap and !done.  While no
\* !done sentence has arrived the command stays pending, whatever else has
\* arrived.  Once one has, the command got one reply: its raw list is
\* every sentence up to the first !done, and its data and its error are
\* those of the same sentences without the ones tagged otherwise.
C28_OtherTags ==
  /\ Dones(Streamed) = {} =>
       /\ ToSend1 = {}
       /\ sendP[1].st = "pending"
       /\ currentRequest = Some(Resolver("send", 1))
       /\ sentences = Streamed
  /\ Dones(Streamed) # {} =>
       /\ Cardinality(ToSend1) = 1
       /\ \A n \in ToSend1 :
            LET response == dispatched[n].response
                raw == SubSeq(Streamed, 1, FirstDone(Streamed))
            IN /\ response.raw = raw
               /\ response.data = reData(SelectSeq(raw, Tagged))
               /\ response.error = trapError(SelectSeq(raw, Tagged))
               /\ \A k \in 1..Len(raw) :
                    raw[k][1] = W_fatal =>
                      /\ \A m \in 1..Len(response.data) :
                           \A e \in 1..Len(response.data[m]) :
                             response.data[m][e].key # <<97>>
                      /\ response.error # Some(<<120>>)

\* !fatal =message=x, !re =c=é, !done resolved the command with one mapping
C28_Witness ==
  /\ Streamed = <<<<W_fatal, P_message \o <<120>>>>, <<W_re, <<61, 99, 61, 233>>>>,
                  <<W_done>>>>
  /\ sendP[1].st = "resolved"
  /\ sendP[1].data = <<<<[key |-> <<99>>, value |-> <<233>>]>>>>

\* a step in which a reply is dispatched, and the callback invoked last in it
DispatchStep == Len(dispatched') > Len(dispatched)
LastDispatch == dispatched'[Len(dispatched')]

\* the resolver invoked last issued a command: only the first callback of
\* _login does, when its reply carries no error
IssuedCommand ==
  /\ LastDispatch.to.kind = "login1"
  /\ Has(hs'[LastDispatch.to.id], "reply1")

\* C29: a dispatch clears the slot and the run.  After a step that
\* dispatches a reply the sentence run is empty, and the resolver slot is
\* empty unless the resolver invoked issued a command, as the first login
\* round does: then the slot holds the resolver of that command.
C29_DispatchClears ==
  [][DispatchStep =>
       /\ sentences' = <<>>
       /\ IssuedCommand =>
            currentRequest' = Some(Resolver("login2", LastDispatch.to.id))
       /\ ~IssuedCommand => currentRequest' = Null]_vars

\* both login rounds and a send() were answered; the slot is empty
C29_Witness ==
  /\ Len(dispatched) = 3
  /\ dispatched[1].to = Resolver("login1", 1)
  /\ dispatched[2].to = Resolver("login2", 1)
  /\ dispatched[3].to.kind = "send"
  /\ currentRequest = Null
  /\ sentences = <<>>

\* C30: overlapping send().  A send() on a Ready connection whose resolver
\* slot is occupied is not rejected and not held back: it stays pending, its
\* sentence is written to the socket in the same step, its resolver takes the
\* slot, and the call whose resolver it displaced is not settled by it.  The
\* slot never holds more than one resolver.
C30_OverlappingSend ==
  [][/\ Len(currentRequest') <= 1
     /\ \A i \in SendIds :
          (SendStep(i) /\ Ready /\ currentRequest # Null) =>
            /\ sendP'[i].st = "pending"
            /\ written'[socket] =
                 Append(written[socket], WireWords(sendP'[i].words) \o <<0>>)
            /\ currentRequest' = Some(Resolver("send", i))
            /\ \A j \in SendIds \ {i} : sendP'[j] = sendP[j]
            /\ connectP' = connectP]_vars

\* two send() calls pending at once, the slot held by the second
C30_Witness ==
  /\ sendP[1].st = "pending"
  /\ sendP[2].st = "pending"
  /\ sendP[1].sock = sendP[2].sock
  /\ sendP[2].widx = sendP[1].widx + 1
  /\ currentRequest = Some(Resolver("send", 2))

\* ------------------------------------------------------------------------
\* _writeLength on its own, one iteration of its loop per step, for lengths
\* up to 2^32 - 1.  A length n is given as [hi, lo] with n = hi * 2^16 + lo.
\* ------------------------------------------------------------------------
Wide(n) == [hi |-> n \div 65536, lo |-> n % 65536]
WideRange ==
  {Wide(n) : n \in LenRange}
    \cup {[hi |-> 32768, lo |-> 0], [hi |-> 32768, lo |-> 129], [hi |-> 65535, lo |-> 65535]}

\* ToInt32(n), the operand "length & 0x7f" and "length >> 7" work on
toInt32(w) ==
  IF w.hi >= 32768 THEN (w.hi - 65536) * 65536 + w.lo ELSE w.hi * 65536 + w.lo

\* this._writeLength(n) entered
InitEncode ==
  \E w \in WideRange :
    Is([NewClient EXCEPT !.codec = [phase |-> "writing", n |-> w, tail |-> <<>>,
                                    bytes |-> <<>>, length |-> toInt32(w),
                                    rest |-> <<>>]])

\* one iteration of while (true): byte = length & 0x7f; length = length >> 7
WriteLengthStep ==
  /\ codec.phase = "writing"
  /\ Len(codec.bytes) < MaxLoop
  /\ LET byte == codec.length % 128
         length == codec.length \div 128
     IN codec' = IF length = 0
                 THEN [codec EXCEPT !.phase = "written", !.length = length,
                                    !.bytes = Append(@, byte)]
                 ELSE [codec EXCEPT !.length = length,
                                    !.bytes = Append(@, byte + 128)]
  /\ UNCHANGED NotCodec

SpecEncode == InitEncode /\ [][WriteLengthStep]_vars

\* the minimal encoding of hi * 2^16 + lo: base-128 digits, the low digit
\* first, 128 added to every digit but the last
RECURSIVE VarintWide(_, _)
VarintWide(hi, lo) ==
  IF hi = 0 /\ lo < 128 THEN <<lo>>
  ELSE <<128 + (lo % 128)>> \o VarintWide(hi \div 128, (hi % 128) * 512 + (lo \div 128))

\* C31: the length encoder.  For every n from 0 to 2^32 - 1 the loop of
\* _writeLength ends after at most five iterations, and what it returns is
\* the minimal encoding of n, one byte for n <= 127, two up to 16383, three
\* from 16384 on.
C31_EncodeLength ==
  /\ Len(codec.bytes) <= 5
  /\ Len(codec.bytes) = 5 => codec.phase = "written"
  /\ codec.phase = "written" =>
       /\ codec.bytes = VarintWide(codec.n.hi, codec.n.lo)
       /\ (codec.n.hi = 0 /\ codec.n.lo <= 127) => Len(codec.bytes) = 1
       /\ (codec.n.hi = 0 /\ codec.n.lo >= 128 /\ codec.n.lo <= 16383) =>
            Len(codec.bytes) = 2
       /\ (codec.n.hi > 0 \/ codec.n.lo >= 16384) => Len(codec.bytes) >= 3

\* C32: close() resolves.  close() is resolved by the listener it adds for
\* the close event of the current socket, and a socket has one close event: a
\* close() call that can still resolve is never waiting for a socket whose
\* close event has already been handled.
C32_CloseCanResolve ==
  \A j \in CloseIds :
    closeP[j].st = "pending" => sock[closeP[j].on].st # "closed"

\* C33: connect() settles when its socket terminates.  Once the close event
\* of a socket that had been established (its login had begun) has been
\* handled, the connect() call that opened it is settled.
C33_ConnectSettlesOnClose ==
  \A s \in SocketIds :
    (sock[s].st = "closed" /\ Has(hs[s], "write1")) => Settled(connectP[s])

\* both login rounds of the connect() call that opened socket s were answered
\* without a !trap sentence
Authenticated(s) ==
  \E n \in 1..Len(dispatched) : \E m \in (n + 1)..Len(dispatched) :
    /\ dispatched[n].to = Resolver("login1", s)
    /\ ~HasTrap(dispatched[n].response.raw)
    /\ dispatched[m].to = Resolver("login2", s)
    /\ ~HasTrap(dispatched[m].response.raw)

\* C34: the connected flag.  Whenever the connected flag is set there is a
\* current socket, and both login rounds on that socket were answered
\* without a trap; in particular the flag is not set while a socket opened
\* by a further connect() has yet to log in.
C34_ConnectedMeansAuthenticated ==
  connected => (socket # 0 /\ Authenticated(socket))

\* a step that handles the close event of socket s, and one that handles a
\* data event of socket s
CloseEventOf(s) == sock[s].st # "closed" /\ sock'[s].st = "closed"
DataEventOf(s) == rcvd'[s] # rcvd[s]

\* C35: events of a superseded socket.  While another socket is the current
\* one, the close event of a socket leaves the socket reference and the
\* receive buffer as they are and does not clear the connected flag of a
\* current socket that has logged in, and a data event of such a socket
\* leaves the receive buffer as it is.
C35_SupersededSocketInert ==
  [][\A s \in SocketIds :
       /\ (CloseEventOf(s) /\ socket # 0 /\ socket # s) =>
            /\ socket' = socket
            /\ buffer' = buffer
            /\ (connected /\ Authenticated(socket)) => connected'
       /\ (DataEventOf(s) /\ socket # 0 /\ socket # s) => buffer' = buffer]_vars

\* a step that handles the connect event of socket s: its login begins
LoginStart(s) == sock[s].st = "connecting" /\ sock'[s].st = "open"

\* C36: a login starts from a fresh assembler.  When the login on a newly
\* opened socket begins, the receive buffer is empty, no sentence is partly
\* assembled and the sentence run is empty.
C36_FreshAssembler ==
  [][\A s \in SocketIds :
       LoginStart(s) =>
         /\ buffer' = <<>>
         /\ currentSentence' \in {Null, Some(<<>>)}
         /\ sentences' = <<>>]_vars

\* ------------------------------------------------------------------------
\* A device that also sends replies nobody asked for, on a Ready connection;
\* data events end where a word or a sentence ends
\* ------------------------------------------------------------------------
InitSurplus == Is(ReadyClient)

\* the lengths of the encoded words and sentence ends of the device's output
RECURSIVE sentencePieces(_)
sentencePieces(sentence) ==
  IF sentence = <<>> THEN <<1>>
  ELSE <<Len(encodeWord(Head(sentence)))>> \o sentencePieces(Tail(sentence))
RECURSIVE replyPieces(_)
replyPieces(reply) ==
  IF reply = <<>> THEN <<>> ELSE sentencePieces(Head(reply)) \o replyPieces(Tail(reply))
RECURSIVE streamPieces(_)
streamPieces(out) ==
  IF out = <<>> THEN <<>> ELSE replyPieces(Head(out).reply) \o streamPieces(Tail(out))
RECURSIVE SumFirst(_, _)
SumFirst(pieces, m) == IF m = 0 THEN 0 ELSE pieces[m] + SumFirst(pieces, m - 1)

\* the offsets in the device's output at which a word or a sentence ends
WordEnds(out) ==
  LET pieces == streamPieces(out) IN {SumFirst(pieces, m) : m \in 1..Len(pieces)}

\* a data event of socket s: the device has emitted j further replies, asked
\* for or not, and the bytes in flight up to the end of a word or of a
\* sentence arrive as one chunk
SockWords(s) ==
  /\ ~crashed
  /\ sock[s].st = "open"
  /\ \E j \in 0..(Max(Len(written[s]) - Len(devOut[s]), 0) + MaxIrregular) :
     \E replies \in [1..j -> {ReplyRe}] :
       LET st1 == emit(This, s, replies)
       IN /\ EarlyTotal(st1.devOut, SocketIds) <= MaxIrregular
          /\ \E k \in 1..Len(inflight(st1, s)) :
               /\ Delivered(st1, s) + k \in WordEnds(st1.devOut[s])
               /\ Commit(dataHandler(st1, s, k))

\* the caller awaits each send() before it issues the next
SendAwaited == (\A i \in SendIds : sendP[i].st # "pending") /\ Send

NextSurplus == SendAwaited \/ \E s \in SocketIds : SockWords(s)

SpecSurplus == InitSurplus /\ [][NextSurplus]_vars

\* the sentences of the device's output on socket s, and the offset at which
\* the n-th of them begins
RECURSIVE sentencesOf(_)
sentencesOf(out) ==
  IF out = <<>> THEN <<>> ELSE Head(out).reply \o sentencesOf(Tail(out))
SentenceStart(s, n) == Len(replyBytes(SubSeq(sentencesOf(devOut[s]), 1, n - 1)))

\* C37: nothing that arrived while no command was pending is delivered to a
\* command issued afterwards.  The raw sentence list of every reply handed to
\* a send() that was issued with no other send() pending is a run of
\* sentences of the device's output that begins at or after the number of
\* bytes the socket had delivered when that send() wrote its command.
C37_NothingOlderDelivered ==
  \A n \in 1..Len(dispatched) :
    (dispatched[n].to.kind = "send" /\ sendP[dispatched[n].to.id].seq) =>
      LET call == sendP[dispatched[n].to.id]
          all == sentencesOf(devOut[call.sock])
          raw == dispatched[n].response.raw
      IN \E a \in 1..Len(all) :
           /\ a + Len(raw) - 1 <= Len(all)
           /\ raw = SubSeq(all, a, a + Len(raw) - 1)
           /\ SentenceStart(call.sock, a) >= call.at

\* ------------------------------------------------------------------------
\* Overlapping commands against a device that answers each command once
\* ------------------------------------------------------------------------
\* the reply of the device to the command send() number i wrote in Ready,
\* once the device has sent it
Answered(i) == sendP[i].ready /\ Len(devOut[sendP[i].sock]) >= sendP[i].widx
OwnReply(i) == devOut[sendP[i].sock][sendP[i].widx].reply
Dispatches(i) == {n \in 1..Len(dispatched) : dispatched[n].to = Resolver("send", i)}

\* C38: against a device that answers every command once and in order, every
\* send() is settled once and with the reply to its own command, overlapping
\* or not.  Once the reply to the command of a send() has arrived, that
\* send() accepted in Ready is settled as that reply says, and no send() is
\* handed more than one reply.
C38_OwnReplyOnce ==
  \A i \in SendIds :
    /\ Cardinality(Dispatches(i)) <= 1
    /\ Answered(i) => SettledAs(sendP[i], responseOf(OwnReply(i)))

\* ------------------------------------------------------------------------
\* Commands after close()
\* ------------------------------------------------------------------------
\* close() was called on the current socket and its close event is yet to come
Closing ==
  /\ socket # 0
  /\ \E j \in CloseIds : closeP[j] = [st |-> "pending", on |-> socket]

\* C39: after close() no command is written.  A send() issued between the
\* close() call and the close event of the socket is rejected with "Not
\* connected": it registers no resolver and makes no write on the half-closed
\* socket.
C39_NoSendAfterClose ==
  [][\A i \in SendIds :
       (SendStep(i) /\ Closing) =>
         /\ sendP'[i].st = "rejected"
         /\ sendP'[i].err = Err("NotConnected", <<>>)
         /\ currentRequest' = currentRequest
         /\ written' = written
         /\ sock' = sock]_vars

====
